---- MODULE Spec2Model ----
(***************************************************************************)
(* Model of the rs-uttt solver (src/src/solver/mod.rs) and of the driver's *)
(* cached solve (src/src/main.rs).                                         *)
(*                                                                         *)
(* Three specifications share the variables:                               *)
(*   Spec        - Game::solve_for applied to positions and depth budgets  *)
(*   SpecCompare - Outcome::compare applied to outcomes                    *)
(*   SpecStack   - the driver's solve on one Stack of cache devices        *)
(***************************************************************************)
EXTENDS Integers, Sequences, FiniteSets, TLC

\* == bounds ===============================================================

\* Board locations a play can name.
NumLocs == 3
\* Largest depth budget requested (0 .. MaxDepth).
MaxDepth == 2
\* Largest turn count / depth carried by an outcome given to the comparator.
MaxTurns == 2
\* Capacity of the first (fast) and of the second cache device.
Capacity0 == 1
Capacity1 == 2

\* == data =================================================================

Players == {"X", "O"}

\* Player::opponent
opponent(p) == IF p = "X" THEN "O" ELSE "X"

\* Option<T>
None == [some |-> FALSE]
Some(v) == [some |-> TRUE, value |-> v]

\* GameState
Won(p) == [tag |-> "Won", player |-> p]
Tied == [tag |-> "Tied"]
Ongoing == [tag |-> "Ongoing"]

\* Outcome
Win(p, t) == [kind |-> "Win", player |-> p, turns |-> t]
Tie(t) == [kind |-> "Tie", turns |-> t]
Unknown(d) == [kind |-> "Unknown", depth |-> d]

\* Solution
Solution(pl, o) == [opt_play |-> pl, outcome |-> o]

\* Play
Play(l, p) == [loc |-> l, player |-> p]

\* -- positions ------------------------------------------------------------
\* A Game is a finite game tree: its state, the player to move, and its
\* valid plays in enumeration order, each with the Game it leads to.

Game(s, np, ps) == [state |-> s, next_player |-> np, plays |-> ps]

\* A position that is over: nobody is to move and no play is valid.
Terminal(s) == Game(s, None, <<>>)

\* The locations of S in increasing order.
RECURSIVE Ascending(_)
Ascending(S) ==
    IF S = {} THEN <<>>
    ELSE LET m == CHOOSE x \in S : \A y \in S : x <= y
         IN  <<m>> \o Ascending(S \ {m})

\* The ongoing positions with p to move whose plays name locations of L and
\* lead to positions of Children.
OngoingGames(p, L, Children) ==
    UNION { { Game(Ongoing, Some(p),
                   [i \in 1..Cardinality(S) |->
                       [play |-> Play(Ascending(S)[i], p),
                        game |-> f[Ascending(S)[i]]]])
              : f \in [S -> Children] }
            : S \in (SUBSET L) \ {{}} }

\* What a play of p can end the game in: p has won, or the board is tied.
EndedBy(p) == {Terminal(Won(p)), Terminal(Tied)}

\* Positions one play from the end, with a single valid play left.
SubGames(p) == OngoingGames(p, {1}, EndedBy(p))

\* An Ongoing position that enumerates no valid play: the case solve_1's
\* is_empty() test exists for.
Stuck(p) == Game(Ongoing, Some(p), <<>>)

\* Every position a solve is requested for.
Games ==
    {Terminal(Won(p)) : p \in Players} \cup {Terminal(Tied)}
    \cup UNION { OngoingGames(p, 1..NumLocs, EndedBy(p) \cup SubGames(opponent(p)))
                 : p \in Players }
    \cup {Stuck(p) : p \in Players}

\* Game::state
state(g) == g.state

\* Game::next_player
next_player(g) == g.next_player

\* Game::valid_plays
valid_plays(g) == [i \in 1..Len(g.plays) |-> g.plays[i].play]

\* Game::play : the position after the play, None when the play is not valid.
play(g, pl) ==
    IF \E i \in 1..Len(g.plays) : g.plays[i].play = pl
    THEN Some(g.plays[CHOOSE i \in 1..Len(g.plays) : g.plays[i].play = pl].game)
    ELSE None

\* == comparators ==========================================================

\* u8::cmp
cmp(t1, t2) == IF t1 < t2 THEN "Less" ELSE IF t1 > t2 THEN "Greater" ELSE "Equal"

\* The arms of Outcome::compare's match, one operator per pair of kinds.
compare_Win_Win(p, a, b) ==
    LET o == opponent(p)
    IN  IF a.player = p /\ b.player = o THEN "Greater"
        ELSE IF a.player = o /\ b.player = p THEN "Less"
        ELSE cmp(a.turns, b.turns)

compare_Win_Tie(p, a, b) == IF a.player = p THEN "Greater" ELSE "Less"

compare_Tie_Win(p, a, b) == IF b.player = opponent(p) THEN "Greater" ELSE "Less"

compare_Win_Unknown(p, a, b) == IF a.player = p THEN "Greater" ELSE "Less"

compare_Unknown_Win(p, a, b) == IF b.player = opponent(p) THEN "Greater" ELSE "Less"

compare_Tie_Tie(p, a, b) == cmp(a.turns, b.turns)

compare_Tie_Unknown(p, a, b) == "Less"

compare_Unknown_Tie(p, a, b) == "Greater"

compare_Unknown_Unknown(p, a, b) == "Equal"

\* Outcome::compare with the Tie/Unknown arms exchanged.
Outcome_compare_TieOverUnknown(p, a, b) ==
    CASE a.kind = "Win" /\ b.kind = "Win" -> compare_Win_Win(p, a, b)
      [] a.kind = "Win" /\ b.kind = "Tie" -> compare_Win_Tie(p, a, b)
      [] a.kind = "Tie" /\ b.kind = "Win" -> compare_Tie_Win(p, a, b)
      [] a.kind = "Win" /\ b.kind = "Unknown" -> compare_Win_Unknown(p, a, b)
      [] a.kind = "Unknown" /\ b.kind = "Win" -> compare_Unknown_Win(p, a, b)
      [] a.kind = "Tie" /\ b.kind = "Tie" -> compare_Tie_Tie(p, a, b)
      [] a.kind = "Tie" /\ b.kind = "Unknown" -> "Greater"
      [] a.kind = "Unknown" /\ b.kind = "Tie" -> "Less"
      [] a.kind = "Unknown" /\ b.kind = "Unknown" -> compare_Unknown_Unknown(p, a, b)

\* Outcome::compare with the (Tie, Win) arm testing the wrong player.
Outcome_compare_TieWinFlipped(p, a, b) ==
    CASE a.kind = "Win" /\ b.kind = "Win" -> compare_Win_Win(p, a, b)
      [] a.kind = "Win" /\ b.kind = "Tie" -> compare_Win_Tie(p, a, b)
      [] a.kind = "Tie" /\ b.kind = "Win" -> IF b.player = p THEN "Greater" ELSE "Less"
      [] a.kind = "Win" /\ b.kind = "Unknown" -> compare_Win_Unknown(p, a, b)
      [] a.kind = "Unknown" /\ b.kind = "Win" -> compare_Unknown_Win(p, a, b)
      [] a.kind = "Tie" /\ b.kind = "Tie" -> compare_Tie_Tie(p, a, b)
      [] a.kind = "Tie" /\ b.kind = "Unknown" -> compare_Tie_Unknown(p, a, b)
      [] a.kind = "Unknown" /\ b.kind = "Tie" -> compare_Unknown_Tie(p, a, b)
      [] a.kind = "Unknown" /\ b.kind = "Unknown" -> compare_Unknown_Unknown(p, a, b)

\* Outcome::compare : two outcomes from the point of view of player p.
Outcome_compare(p, a, b) ==
    CASE a.kind = "Win" /\ b.kind = "Win" -> compare_Win_Win(p, a, b)
      [] a.kind = "Win" /\ b.kind = "Tie" -> compare_Win_Tie(p, a, b)
      [] a.kind = "Tie" /\ b.kind = "Win" -> compare_Tie_Win(p, a, b)
      [] a.kind = "Win" /\ b.kind = "Unknown" -> compare_Win_Unknown(p, a, b)
      [] a.kind = "Unknown" /\ b.kind = "Win" -> compare_Unknown_Win(p, a, b)
      [] a.kind = "Tie" /\ b.kind = "Tie" -> compare_Tie_Tie(p, a, b)
      [] a.kind = "Tie" /\ b.kind = "Unknown" -> compare_Tie_Unknown(p, a, b)
      [] a.kind = "Unknown" /\ b.kind = "Tie" -> compare_Unknown_Tie(p, a, b)
      [] a.kind = "Unknown" /\ b.kind = "Unknown" -> compare_Unknown_Unknown(p, a, b)

\* Solution::compare : computes the opponent, then answers Equal.
Solution_compare(player, a, b) ==
    LET o == opponent(player)
    IN  "Equal"

\* == solvers ==============================================================

\* How a solve ends: with a Solution, or in a panic. enumerated counts the
\* calls of valid_plays, applied the calls of play.
Returned(sol, en, ap) ==
    [kind |-> "returned", solution |-> sol, enumerated |-> en, applied |-> ap]
Panicked(msg, en, ap) ==
    [kind |-> "panic", message |-> msg, enumerated |-> en, applied |-> ap]

EmptySolutions == "Internal Error. The solutions vector is empty."
UnwrapNone == "called Option::unwrap() on a None value"
NotImplemented == "not yet implemented"

\* Game::solve_0 with the Ongoing arm answering the Tied arm's outcome.
solve_0_OngoingAsTie(g) ==
    CASE state(g).tag = "Won" -> Solution(None, Win(state(g).player, 0))
      [] state(g).tag = "Tied" -> Solution(None, Tie(0))
      [] state(g).tag = "Ongoing" -> Solution(None, Tie(0))

\* Game::solve_0 : the solution for depth == 0.
solve_0(g) ==
    CASE state(g).tag = "Won" -> Solution(None, Win(state(g).player, 0))
      [] state(g).tag = "Tied" -> Solution(None, Tie(0))
      [] state(g).tag = "Ongoing" -> Solution(None, Unknown(0))

\* slice::sort_by, a stable sort: x goes before the first element that
\* compares Greater than it.
RECURSIVE insert_sorted(_, _, _)
insert_sorted(p, sorted, x) ==
    IF sorted = <<>> THEN <<x>>
    ELSE IF Solution_compare(p, Head(sorted), x) = "Greater"
         THEN <<x>> \o sorted
         ELSE <<Head(sorted)>> \o insert_sorted(p, Tail(sorted), x)

RECURSIVE sort_by(_, _)
sort_by(p, ss) ==
    IF ss = <<>> THEN <<>>
    ELSE insert_sorted(p, sort_by(p, SubSeq(ss, 1, Len(ss) - 1)), ss[Len(ss)])

\* best_solution_1 : sorts the solutions and answers the first.
best_solution_1(p, solutions) == Head(sort_by(p, solutions))

\* Game::solve_1 : the solution for depth == 1.
solve_1(g) ==
    LET solution == solve_0(g)
        plays == valid_plays(g)
        children == [i \in 1..Len(plays) |-> play(g, plays[i])]
        failed == {i \in 1..Len(plays) : ~children[i].some}
        solutions == [i \in 1..Len(plays) |-> solve_0(children[i].value)]
    IN  IF solution.outcome.kind \in {"Win", "Tie"}
        THEN Returned(solution, 0, 0)
        ELSE IF failed # {}
        THEN Panicked(UnwrapNone, 1, CHOOSE i \in failed : \A j \in failed : i <= j)
        ELSE IF solutions = <<>>
        THEN Panicked(EmptySolutions, 1, Len(plays))
        ELSE IF ~next_player(g).some
        THEN Panicked(UnwrapNone, 1, Len(plays))
        ELSE Returned(best_solution_1(next_player(g).value, solutions), 1, Len(plays))

\* Game::solve_for : depth 0 and 1 are solved, every other depth is
\* unimplemented!().
solve_for(g, d) ==
    CASE d = 0 -> Returned(solve_0(g), 0, 0)
      [] d = 1 -> solve_1(g)
      [] OTHER -> Panicked(NotImplemented, 0, 0)

\* == cache ================================================================

\* The key of a cache entry: the position and the exact depth requested.
Key(g, d) == [game |-> g, depth |-> d]

\* A cache device: its capacity and its entries, least recently used first.
Device(cap, es) == [capacity |-> cap, entries |-> es]

\* SSD_CPU_Stack::new : two empty devices, the fast and small one first.
SSD_CPU_Stack_new == <<Device(Capacity0, <<>>), Device(Capacity1, <<>>)>>

\* The place of the key among the device's entries, 0 when it holds none.
find(dev, k) ==
    IF \E i \in 1..Len(dev.entries) : dev.entries[i].key = k
    THEN CHOOSE i \in 1..Len(dev.entries) : dev.entries[i].key = k
    ELSE 0

\* The entries without the one at place i.
without(es, i) == SubSeq(es, 1, i - 1) \o SubSeq(es, i + 1, Len(es))

\* A hit: the entry at place i becomes the most recently used.
touch(dev, i) ==
    Device(dev.capacity, without(dev.entries, i) \o <<dev.entries[i]>>)

\* A write: the entry becomes the most recently used; beyond the capacity
\* the least recently used entry is evicted.
put(dev, k, v) ==
    LET i == find(dev, k)
        kept == IF i = 0 THEN dev.entries ELSE without(dev.entries, i)
        es == kept \o <<[key |-> k, value |-> v]>>
    IN  Device(dev.capacity,
               IF Len(es) > dev.capacity
               THEN SubSeq(es, Len(es) - dev.capacity + 1, Len(es))
               ELSE es)

\* What a request ends in: an optional Solution, or the solver's panic.
\* served names where the Solution came from: the key of the entry that was
\* hit, or None when it was computed.
Answered(opt, from) == [kind |-> "returned", opt_solution |-> opt, served |-> from]
Aborted(msg) == [kind |-> "panic", message |-> msg]

\* Stack::get_and_put : the first device holding (game, depth) answers; on a
\* miss of every device the solver computes and every device is written.
get_and_put(stack, g, d) ==
    LET k == Key(g, d)
        hits == {i \in 1..Len(stack) : find(stack[i], k) # 0}
        first == CHOOSE i \in hits : \A j \in hits : i <= j
        computed == solve_for(g, d)
    IN  IF hits # {}
        THEN [answer |-> Answered(Some(stack[first].entries[find(stack[first], k)].value),
                                  Some(k)),
              stack |-> [stack EXCEPT ![first] = touch(stack[first], find(stack[first], k))]]
        ELSE IF computed.kind = "panic"
        THEN [answer |-> Aborted(computed.message), stack |-> stack]
        ELSE [answer |-> Answered(Some(computed.solution), None),
              stack |-> [i \in 1..Len(stack) |-> put(stack[i], k, computed.solution)]]

Error3921 == "Error 3921"

\* The driver's solve asking the Stack for depth 0 whatever the depth.
solve_DepthDropped(stack, g, d) ==
    LET r == get_and_put(stack, g, 0)
    IN  IF r.answer.kind = "panic" THEN r
        ELSE IF r.answer.opt_solution.some THEN r
        ELSE [answer |-> Aborted(Error3921), stack |-> r.stack]

\* The driver's solve : the Stack's answer, a panic when it is absent.
solve(stack, g, d) ==
    LET r == get_and_put(stack, g, d)
    IN  IF r.answer.kind = "panic" THEN r
        ELSE IF r.answer.opt_solution.some THEN r
        ELSE [answer |-> Aborted(Error3921), stack |-> r.stack]

\* == state ================================================================

VARIABLES
    game,       \* the position given to solve_for
    depth,      \* the depth budget given to solve_for
    run,        \* how solve_for ended
    cmp_in,     \* the player and the outcomes given to Outcome::compare
    cmp_out,    \* what Outcome::compare answered
    devices,    \* the Stack's devices
    request,    \* the last (game, depth) the driver asked the Stack for
    answer      \* how that request ended

vars == <<game, depth, run, cmp_in, cmp_out, devices, request, answer>>

Idle == [kind |-> "idle"]

Outcomes ==
    {Win(p, t) : p \in Players, t \in 0..MaxTurns}
    \cup {Tie(t) : t \in 0..MaxTurns}
    \cup {Unknown(d) : d \in 0..MaxTurns}

\* The positions the driver asks the Stack about: the last positions of
\* games that X ends, and the stuck position.
StackGames ==
    {g \in Games : /\ next_player(g) # Some("O")
                   /\ state(g) # Won("O")
                   /\ \A i \in 1..Len(g.plays) :
                         g.plays[i].play.loc = 1 /\ g.plays[i].game \in EndedBy("X")}

SolverIdle == game = Terminal(Tied) /\ depth = 0 /\ run = Idle
CompareIdle == cmp_in = [p |-> "X", a |-> Tie(0), b |-> Tie(0), c |-> Tie(0)] /\ cmp_out = Idle
StackIdle == devices = SSD_CPU_Stack_new /\ request = Key(Terminal(Tied), 0) /\ answer = Idle

\* -- the solver -----------------------------------------------------------

Init ==
    /\ game \in Games
    /\ depth \in 0..MaxDepth
    /\ run = Idle
    /\ CompareIdle
    /\ StackIdle

\* Game::solve_for on the position and the depth budget.
SolveFor ==
    /\ run = Idle
    /\ run' = solve_for(game, depth)
    /\ UNCHANGED <<game, depth, cmp_in, cmp_out, devices, request, answer>>

Next == SolveFor

Spec == Init /\ [][Next]_vars

\* -- the comparator -------------------------------------------------------

InitCompare ==
    /\ cmp_in \in [p : Players, a : Outcomes, b : Outcomes, c : Outcomes]
    /\ cmp_out = Idle
    /\ SolverIdle
    /\ StackIdle

\* Outcome::compare on each pair of the three outcomes.
Compare ==
    /\ cmp_out = Idle
    /\ cmp_out' = [kind |-> "done",
                   aa |-> Outcome_compare(cmp_in.p, cmp_in.a, cmp_in.a),
                   ab |-> Outcome_compare(cmp_in.p, cmp_in.a, cmp_in.b),
                   ba |-> Outcome_compare(cmp_in.p, cmp_in.b, cmp_in.a),
                   bc |-> Outcome_compare(cmp_in.p, cmp_in.b, cmp_in.c),
                   ac |-> Outcome_compare(cmp_in.p, cmp_in.a, cmp_in.c)]
    /\ UNCHANGED <<game, depth, run, cmp_in, devices, request, answer>>

NextCompare == Compare

SpecCompare == InitCompare /\ [][NextCompare]_vars

\* -- the driver and the Stack ---------------------------------------------

InitStack ==
    /\ StackIdle
    /\ SolverIdle
    /\ CompareIdle

\* The driver solves a position at a depth; a panic ends the process.
DriverSolve ==
    /\ answer.kind # "panic"
    /\ \E g \in StackGames, d \in 0..MaxDepth :
          LET r == solve(devices, g, d)
          IN  /\ request' = Key(g, d)
              /\ answer' = r.answer
              /\ devices' = r.stack
    /\ UNCHANGED <<game, depth, run, cmp_in, cmp_out>>

NextStack == DriverSolve

SpecStack == InitStack /\ [][NextStack]_vars

\* == properties of the solver (Spec) ======================================

Solved == run # Idle
IsTerminal(g) == state(g).tag \in {"Won", "Tied"}
IsOngoing(g) == state(g).tag = "Ongoing"

\* The depth-0 outcome of the position the i-th valid play leads to.
ChildOutcome(g, i) == solve_0(play(g, valid_plays(g)[i]).value).outcome

\* C1: for every terminal position and every depth budget (0, 1, and 2 or
\* more), solve_for returns normally, with the outcome solve_for gives at
\* depth 0 and with no recommended play.
C1_TerminalDepthInvariant ==
    (Solved /\ IsTerminal(game)) =>
        /\ run.kind = "returned"
        /\ run.solution.outcome = solve_for(game, 0).solution.outcome
        /\ run.solution.opt_play = None

\* C2: for every non-terminal position (with a valid play) and every depth
\* budget >= 1, solve_for returns a Solution whose play is present and is
\* one of valid_plays; the play is absent only at depth 0 or on a terminal
\* position.
C2_PlayPresentAndValid ==
    /\ (Solved /\ IsOngoing(game) /\ valid_plays(game) # <<>> /\ depth >= 1) =>
          /\ run.kind = "returned"
          /\ run.solution.opt_play.some
          /\ \E i \in 1..Len(valid_plays(game)) :
                run.solution.opt_play.value = valid_plays(game)[i]
    /\ (Solved /\ run.kind = "returned" /\ ~run.solution.opt_play.some) =>
          (depth = 0 \/ IsTerminal(game))

\* C3: at depth 1 the outcome of a non-terminal position is a child's
\* depth-0 outcome one ply further away: a child Win{player, turns: t} or
\* Tie{turns: t} comes back as Win{player, turns: t+1} or Tie{turns: t+1}.
C3_ChildOutcomeRetagged ==
    (Solved /\ IsOngoing(game) /\ valid_plays(game) # <<>> /\ depth = 1) =>
        /\ run.kind = "returned"
        /\ \E i \in 1..Len(valid_plays(game)) :
              LET c == ChildOutcome(game, i)
              IN  CASE c.kind = "Win" -> run.solution.outcome = Win(c.player, c.turns + 1)
                    [] c.kind = "Tie" -> run.solution.outcome = Tie(c.turns + 1)
                    [] c.kind = "Unknown" -> run.solution.outcome.kind = "Unknown"

\* C4: at depth 1 the outcome selected for a non-terminal position is a
\* child's outcome that no other child's outcome beats under
\* Outcome::compare from the point of view of the player to move (Greater
\* being better, as a win for the mover compares to a win for the other).
C4_BestChildSelected ==
    (Solved /\ IsOngoing(game) /\ valid_plays(game) # <<>> /\ depth = 1) =>
        /\ run.kind = "returned"
        /\ \E k \in 1..Len(valid_plays(game)) :
              /\ run.solution.outcome.kind = ChildOutcome(game, k).kind
              /\ run.solution.outcome.kind = "Win" =>
                    run.solution.outcome.player = ChildOutcome(game, k).player
              /\ \A i \in 1..Len(valid_plays(game)) :
                    Outcome_compare(next_player(game).value,
                                    ChildOutcome(game, i),
                                    ChildOutcome(game, k)) # "Greater"

\* C9: at depth 0 solve_for classifies the position itself: Won(p) gives
\* Win{player: p, turns: 0}, Tied gives Tie{turns: 0}, Ongoing gives
\* Unknown{depth: 0}; no play is recommended, enumerated or applied.
C9_DepthZeroClassifies ==
    (Solved /\ depth = 0) =>
        /\ run.kind = "returned"
        /\ run.solution.opt_play = [some |-> FALSE]
        /\ run.enumerated = 0
        /\ run.applied = 0
        /\ game.state.tag = "Won" =>
              run.solution.outcome =
                  [kind |-> "Win", player |-> game.state.player, turns |-> 0]
        /\ game.state.tag = "Tied" =>
              run.solution.outcome = [kind |-> "Tie", turns |-> 0]
        /\ game.state.tag = "Ongoing" =>
              run.solution.outcome = [kind |-> "Unknown", depth |-> 0]

\* An ongoing position with valid plays was solved at depth 0 and came back
\* Unknown{depth: 0}.
C9_Witness ==
    /\ Solved /\ depth = 0
    /\ game.state.tag = "Ongoing" /\ Len(game.plays) >= 2
    /\ run.kind = "returned"
    /\ run.solution.outcome = [kind |-> "Unknown", depth |-> 0]

\* C10: an Ongoing position that enumerates no valid play, solved with a
\* depth budget >= 1, ends in the empty-solutions panic; an Ongoing position
\* with a valid play, solved at depth 1, reaches no panic.
C10_InvariantFailure ==
    /\ (Solved /\ IsOngoing(game) /\ valid_plays(game) = <<>> /\ depth >= 1) =>
          (run.kind = "panic" /\ run.message = EmptySolutions)
    /\ (Solved /\ IsOngoing(game) /\ valid_plays(game) # <<>> /\ depth = 1) =>
          run.kind = "returned"

\* == properties of the comparator (SpecCompare) ===========================

Compared == cmp_out # Idle

\* The Ordering that stands for "a is better than b": what compare answers
\* for a win for p against a win for the opponent.
Better(p) == Outcome_compare(p, Win(p, 0), Win(opponent(p), 0))

IsWinFor(p, o) == o.kind = "Win" /\ o.player = p

\* The rank of an outcome's kind as the specification words it.
RankClaimed(p, o) ==
    IF IsWinFor(p, o) THEN 3
    ELSE IF o.kind = "Tie" THEN 2
    ELSE IF o.kind = "Unknown" THEN 1
    ELSE 0

\* The rank of an outcome's kind as the arms of the match give it.
RankInCode(p, o) ==
    IF IsWinFor(p, o) THEN 3
    ELSE IF o.kind = "Unknown" THEN 2
    ELSE IF o.kind = "Tie" THEN 1
    ELSE 0

\* C5: the kinds rank, best first: win for P, tie, unknown, win for the
\* opponent; the better kind wins the comparison whatever the turn counts
\* and depths.
C5_KindsRankedAsClaimed ==
    (Compared /\ RankClaimed(cmp_in.p, cmp_in.a) > RankClaimed(cmp_in.p, cmp_in.b)) =>
        cmp_out.ab = Better(cmp_in.p)

\* C5 (amended): the kinds rank, best first: win for P, unknown, tie, win
\* for the opponent; the better kind compares Greater whatever the turn
\* counts and depths.
C5_KindsRanked ==
    (Compared /\ RankInCode(cmp_in.p, cmp_in.a) > RankInCode(cmp_in.p, cmp_in.b)) =>
        (cmp_out.ab = Better(cmp_in.p) /\ cmp_out.ab = "Greater")

\* An unknown was compared with a tie and came out the better one.
C5_Witness ==
    /\ Compared
    /\ cmp_in.a.kind = "Unknown" /\ cmp_in.b.kind = "Tie"
    /\ cmp_in.a.depth > cmp_in.b.turns
    /\ cmp_out.ab = "Greater"

\* C6: within one kind: of two wins for P the one with fewer turns is
\* better, of two wins for the opponent the one with more turns, of two
\* ties the one with fewer turns; equal turn counts compare Equal.
C6_TurnsBreakRanks ==
    Compared =>
        LET p == cmp_in.p
            a == cmp_in.a
            b == cmp_in.b
        IN  /\ (IsWinFor(p, a) /\ IsWinFor(p, b) /\ a.turns < b.turns) =>
                  cmp_out.ab = Better(p)
            /\ (IsWinFor(opponent(p), a) /\ IsWinFor(opponent(p), b) /\ a.turns > b.turns) =>
                  cmp_out.ab = Better(p)
            /\ (a.kind = "Tie" /\ b.kind = "Tie" /\ a.turns < b.turns) =>
                  cmp_out.ab = Better(p)
            /\ (a.kind = b.kind /\ a.kind # "Unknown" /\ a.turns = b.turns
                  /\ (a.kind = "Win" => a.player = b.player)) =>
                  cmp_out.ab = "Equal"

AtLeast(ord) == ord \in {"Greater", "Equal"}

\* C7: for a fixed player compare is a total preorder: an outcome compares
\* Equal to itself, compare(b, a) is the reverse of compare(a, b), the
\* relation is transitive over every mix of kinds, and two unknowns compare
\* Equal whatever their depths.
C7_TotalPreorder ==
    Compared =>
        /\ cmp_out.aa = "Equal"
        /\ cmp_out.ab \in {"Less", "Equal", "Greater"}
        /\ cmp_out.ba = (IF cmp_out.ab = "Less" THEN "Greater"
                         ELSE IF cmp_out.ab = "Greater" THEN "Less" ELSE "Equal")
        /\ (AtLeast(cmp_out.ab) /\ AtLeast(cmp_out.bc)) => AtLeast(cmp_out.ac)
        /\ (AtLeast(cmp_out.ab) /\ AtLeast(cmp_out.bc)
              /\ "Greater" \in {cmp_out.ab, cmp_out.bc}) => cmp_out.ac = "Greater"
        /\ (cmp_in.a.kind = "Unknown" /\ cmp_in.b.kind = "Unknown") => cmp_out.ab = "Equal"

\* A chain over three kinds was compared: a tie over a win for the
\* opponent, and a win for P over the tie.
C7_Witness ==
    /\ Compared
    /\ IsWinFor(cmp_in.p, cmp_in.a) /\ cmp_in.b.kind = "Tie"
    /\ IsWinFor(opponent(cmp_in.p), cmp_in.c)
    /\ cmp_out.ab = "Greater" /\ cmp_out.bc = "Greater" /\ cmp_out.ac = "Greater"
    /\ cmp_out.ba = "Less"

\* == properties of the driver and the Stack (SpecStack) ===================

Asked == answer # Idle

====
